---- MODULE Spec2Model ----
(***************************************************************************)
(* Codon harmonization (CHarm): LibCharm/Sequence/__init__.py.             *)
(*                                                                         *)
(* Sequence.__init__ runs the whole pipeline: translate the input, split   *)
(* it into codon records, fetch the usage tables of the origin and host    *)
(* organism, harmonize the codons, construct the new sequence, translate   *)
(* it.  Each of these steps is one action; pc is the position in __init__. *)
(*                                                                         *)
(* Numbers.  Usage values are the two-decimal fractions (or one-decimal    *)
(* frequencies per thousand) of the Kazusa tables; the model holds them    *)
(* as integers, a fraction in hundredths and a frequency in tenths, so     *)
(* that differences and comparisons are exact.                             *)
(***************************************************************************)
EXTENDS Integers, Sequences, FiniteSets

\* -------------------------------------------------------------------------
\* Bounds of the model
\* -------------------------------------------------------------------------

\* Longest input of the pipeline specification, in whole codons.
MaxCodons == 2

\* The depth of nested calls at which the interpreter raises RecursionError
\* (sys.getrecursionlimit(), 1000 by default), scaled down.
RecursionLimit == 3

\* -------------------------------------------------------------------------
\* Values
\* -------------------------------------------------------------------------

\* Python's None in a numeric field of a codon record, and as the
\* lower_threshold argument.  Usage values and differences are >= 0.
NoneNum == -1

\* Python's None in the 'new' field of a codon record.
NoneCodon == <<>>

\* The defaults of lower_threshold: 0.1 as a fraction (in hundredths) and
\* 5 as a frequency per thousand (in tenths).
DefaultThresholdFraction == 10
DefaultThresholdFrequency == 50

Abs(x) == IF x < 0 THEN -x ELSE x

CTT == <<"C", "T", "T">>
CTC == <<"C", "T", "C">>
CTG == <<"C", "T", "G">>
TAA == <<"T", "A", "A">>
TGA == <<"T", "G", "A">>

\* A codon with a letter outside the IUPAC nucleotide letters: no
\* translation table translates it.
CTX == <<"C", "T", "X">>

\* The codons of the model: three synonymous codons of leucine (CTG is also
\* a start codon), and two stop codons of the standard code, one of which
\* (TGA) codes for tryptophan in translation table 4.
Codons == {CTT, CTC, CTG, TAA, TGA}

\* NCBI translation tables of the model: 1 (Standard) and 4 (Mold,
\* Protozoan, Mycoplasma), which differ on TGA.
TableIds == {1, 4}

\* CodonTable.forward_table: codon -> amino acid, stop codons excluded.
ForwardTable(id) ==
    [c \in (IF id = 1 THEN {CTT, CTC, CTG} ELSE {CTT, CTC, CTG, TGA}) |->
        IF c = TGA THEN "W" ELSE "L"]

\* CodonTable.stop_codons
StopCodons(id) == IF id = 1 THEN {TAA, TGA} ELSE {TAA}

\* CodonTable.start_codons, within the codons of the model
StartCodons(id) == {CTG}

\* str(codon.translate(table=...)) of one chunk: Bio.Seq translates whole
\* codons only, so a trailing partial codon translates to the empty string.
TranslateCodon(chunk, id) ==
    IF Len(chunk) < 3 THEN ""
    ELSE IF chunk \in DOMAIN ForwardTable(id) THEN ForwardTable(id)[chunk]
    ELSE "*"

\* A whole codon that is neither in the forward table nor a stop codon:
\* Bio.Seq.translate raises TranslationError ("Codon ... is invalid") on it.
InvalidCodon(chunk, id) ==
    /\ Len(chunk) = 3
    /\ chunk \notin DOMAIN ForwardTable(id)
    /\ chunk \notin StopCodons(id)

\* -------------------------------------------------------------------------
\* Sequence.chunks and Sequence.split_original_sequence_to_codons
\* -------------------------------------------------------------------------

\* chunks(string, n): string[start:start+n] for start in range(0, len, n);
\* the last chunk is shorter when len(string) is no multiple of n.
chunks(string, n) ==
    [k \in 1..((Len(string) + n - 1) \div n) |->
        SubSeq(string, (k - 1) * n + 1,
               IF k * n <= Len(string) THEN k * n ELSE Len(string))]

split_original_sequence_to_codons(sequence, id) ==
    LET cs == chunks(sequence, 3)
    IN  [k \in 1..Len(cs) |->
            [position   |-> k,
             original   |-> cs[k],
             new        |-> NoneCodon,
             origin_f   |-> NoneNum,
             target_f   |-> NoneNum,
             initial_df |-> NoneNum,
             final_df   |-> NoneNum,
             aa         |-> TranslateCodon(cs[k], id)]]

\* -------------------------------------------------------------------------
\* CodonUsageTable
\* -------------------------------------------------------------------------

\* A usage table is the list of its entries [codon, aa, f] in the order in
\* which add_to_table inserted them: usage_table[aa] iterates over the
\* entries of aa in that order, usage_table[aa][codon]['f'] is the f of the
\* entry, and a missing aa or codon raises KeyError.
\*
\* What the Kazusa page of a species holds is a list of lines
\* [codon, fraction, frequency]; the page names the amino acid of each codon
\* under the translation table of the request (aa=<id> in the URL), and
\* use_frequency selects the column.
CodonUsageTable(species, id, use_frequency) ==
    [k \in DOMAIN species |->
        [codon |-> species[k].codon,
         aa    |-> TranslateCodon(species[k].codon, id),
         f     |-> IF use_frequency THEN species[k].frequency
                   ELSE species[k].fraction]]

\* aa in usage_table and codon in usage_table[aa]
HasKey(table, aa, codon) ==
    \E k \in DOMAIN table : table[k].aa = aa /\ table[k].codon = codon

\* usage_table[aa][codon]['f']
UsageF(table, aa, codon) ==
    table[CHOOSE k \in DOMAIN table :
              table[k].aa = aa /\ table[k].codon = codon].f

\* HostItems with a fault: every codon of the host table, whatever its
\* amino acid.
HostItemsAnyAA(table, aa) == table

\* for item in self.usage_host.usage_table[aa]
HostItems(table, aa) == SelectSeq(table, LAMBDA e : e.aa = aa)

\* -------------------------------------------------------------------------
\* sorted(list, key=...): Python's sort is stable and ascending
\* -------------------------------------------------------------------------

\* A candidate is the tuple (item, df_new, f_target_new); Python's indices
\* 0, 1, 2 are 1, 2, 3 here.  The keys of the source:
\*   "df_f"  key=itemgetter(1, 2): by df_new, then by f_target_new
\*   "f"     key=itemgetter(2):    by f_target_new
\*   "df"    key=itemgetter(1):    by df_new
KeyLess(key, a, b) ==
    CASE key = "df_f" -> a[2] < b[2] \/ (a[2] = b[2] /\ a[3] < b[3])
      [] key = "f"    -> a[3] < b[3]
      [] key = "df"   -> a[2] < b[2]

\* The element at place i comes after every element of a smaller key and
\* after the elements of an equal key that stand before it.
sorted(s, key) ==
    LET n == Len(s)
        rank(i) == 1 + Cardinality({j \in 1..n :
                       \/ KeyLess(key, s[j], s[i])
                       \/ (~KeyLess(key, s[i], s[j]) /\ j < i)})
    IN  [k \in 1..n |-> s[CHOOSE i \in 1..n : rank(i) = k]]

\* -------------------------------------------------------------------------
\* Sequence.sort_replacement_codons, the body of its loop for one codon
\* -------------------------------------------------------------------------

\* (item, df_new, f_target_new) for every item of the host table of aa
Candidates(items, origin_f) ==
    [k \in DOMAIN items |->
        <<items[k].codon, Abs(origin_f - items[k].f), items[k].f>>]

\* Rejected with a fault: the threshold rejects nothing.
RejectedNever(f_target_new, lower_threshold, origin_f) == FALSE

\* if f_target_new < self.lower_threshold < origin_f: add = False
Rejected(f_target_new, lower_threshold, origin_f) ==
    f_target_new < lower_threshold /\ lower_threshold < origin_f

\* The value of add after the if/else of one item.  Both branches of the
\* inner if set add = True: the condition of the else branch is commented
\* out in the source ("else:# target_f == 0:").
Add(f_target_new, df_new, df, lower_threshold, origin_f) ==
    IF Rejected(f_target_new, lower_threshold, origin_f) THEN FALSE
    ELSE IF df_new < df THEN TRUE
    ELSE TRUE

\* stop_codons: every item, when aa is '*' and strong_stop is set
StopCodonList(items, aa, origin_f, strong_stop) ==
    IF aa = "*" /\ strong_stop THEN Candidates(items, origin_f) ELSE <<>>

\* codon_substitutions: the items with add set, in the order of the table
CodonSubstitutions(items, aa, origin_f, df, lower_threshold, strong_stop) ==
    IF aa = "*" /\ strong_stop THEN <<>>
    ELSE SelectSeq(Candidates(items, origin_f),
                   LAMBDA t : Add(t[3], t[2], df, lower_threshold, origin_f))

\* SortedSubstitutions with a fault: sorted by the host usage alone.
SortedSubstitutionsByF(codon_substitutions) ==
    sorted(codon_substitutions, "f")

\* sorted(codon_substitutions, key=itemgetter(1, 2))
SortedSubstitutions(codon_substitutions) ==
    sorted(codon_substitutions, "df_f")

\* chosen_codon_index (0 or 1 in the source, 1 or 2 here): the second of
\* the sorted substitutions when the first two have the same df_new and not
\* the same f_target_new and lower_alternative is not set.
ChosenCodonIndex(s, lower_alternative) ==
    IF /\ Len(s) >= 2
       /\ s[1][2] = s[2][2]
       /\ ~(s[1][3] = s[2][3])
       /\ ~lower_alternative
    THEN 2 ELSE 1

\* StrongStop with a fault: the stop codons sorted by df_new.
StrongStopByDf(stop_codons) ==
    LET s == sorted(stop_codons, "df") IN s[Len(s)]

\* sorted(stop_codons, key=itemgetter(2))[-1]
StrongStop(stop_codons) ==
    LET s == sorted(stop_codons, "f") IN s[Len(s)]

\* The lookups of lines 154 and 155 raise KeyError.
RaisesKeyError(self, codon) ==
    \/ ~HasKey(self.usage_origin, codon.aa, codon.original)
    \/ ~HasKey(self.usage_host, codon.aa, codon.original)

\* One pass of the loop body: the codon record as the pass leaves it.
ResolveCodon(self, codon) ==
    LET aa         == codon.aa
        orig_codon == codon.original
        origin_f   == UsageF(self.usage_origin, aa, orig_codon)
        target_f   == UsageF(self.usage_host, aa, orig_codon)
        df         == Abs(origin_f - target_f)
        items      == HostItems(self.usage_host, aa)
        subst      == CodonSubstitutions(items, aa, origin_f, df,
                                         self.lower_threshold,
                                         self.strong_stop)
        stops      == StopCodonList(items, aa, origin_f, self.strong_stop)
        first      == [codon EXCEPT !.origin_f = origin_f,
                                    !.target_f = target_f,
                                    !.initial_df = df]
    IN  IF subst # <<>> THEN
            LET s      == SortedSubstitutions(subst)
                chosen == s[ChosenCodonIndex(s, self.lower_alternative)]
            IN  [first EXCEPT !.final_df = chosen[2],
                              !.target_f = chosen[3],
                              !.new = chosen[1]]
        ELSE IF aa = "*" /\ self.strong_stop THEN
            LET chosen == StrongStop(stops)
            IN  [first EXCEPT !.final_df = chosen[2],
                              !.target_f = chosen[3],
                              !.new = chosen[1]]
        ELSE [first EXCEPT !.final_df = df, !.new = orig_codon]

\* sort_replacement_codons with a fault: a record whose lookup raises
\* KeyError is skipped and the loop goes on.
sort_replacement_codons_skipping(self, records, idx) ==
    [raised |-> FALSE,
     codons |-> [i \in DOMAIN records |->
                    IF /\ \E k \in DOMAIN idx : idx[k] = i
                       /\ ~RaisesKeyError(self, records[i])
                    THEN ResolveCodon(self, records[i])
                    ELSE records[i]]]

\* sort_replacement_codons(codons): the records are resolved in order and in
\* place; a KeyError ends the loop and leaves the records resolved so far.
\* `records` is self.codons and idx lists the indices of the records the
\* loop runs over (the list it is given holds the records of self.codons
\* themselves, not copies).
sort_replacement_codons(self, records, idx) ==
    LET bad  == {k \in DOMAIN idx : RaisesKeyError(self, records[idx[k]])}
        stop == IF bad = {} THEN Len(idx) + 1
                ELSE CHOOSE k \in bad : \A j \in bad : k <= j
        done == {idx[k] : k \in 1..(stop - 1)}
    IN  [raised |-> bad # {},
         codons |-> [i \in DOMAIN records |->
                        IF i \in done THEN ResolveCodon(self, records[i])
                        ELSE records[i]]]

\* -------------------------------------------------------------------------
\* Sequence.compute_replacement_table and Sequence.harmonize_codons
\* -------------------------------------------------------------------------

\* unique_codons: the records whose 'original' no earlier record has, in
\* the order of self.codons (as the list of their indices).
UniqueCodons(records) ==
    LET first == {i \in DOMAIN records :
                     \A j \in 1..(i - 1) :
                         records[j].original # records[i].original}
        nth(k) == CHOOSE i \in first :
                      Cardinality({j \in first : j < i}) = k - 1
    IN  [k \in 1..Cardinality(first) |-> nth(k)]

\* compute_replacement_table: sort_replacement_codons over the unique
\* codons.  table is the list it returns.
compute_replacement_table(self, records) ==
    LET idx == UniqueCodons(records)
        r   == sort_replacement_codons(self, records, idx)
    IN  [raised |-> r.raised,
         codons |-> r.codons,
         table  |-> [k \in DOMAIN idx |-> r.codons[idx[k]]]]

\* CopyFields with a fault: 'position' is copied like every other key.
CopyFieldsAll(codon, new_codon) == new_codon

\* for key, value in new_codon.items(): if key != 'position': codon[key] = value
CopyFields(codon, new_codon) ==
    [new_codon EXCEPT !.position = codon.position]

\* The two loops of harmonize_codons over self.codons and the table: every
\* entry of the table with the record's 'original' is copied into it, in
\* the order of the table.
RECURSIVE CopyFrom(_, _, _)
CopyFrom(codon, table, k) ==
    IF k > Len(table) THEN codon
    ELSE CopyFrom(IF codon.original = table[k].original
                  THEN CopyFields(codon, table[k]) ELSE codon,
                  table, k + 1)

\* harmonize_codons: self.codons as the call leaves it, and whether it
\* raised.
harmonize_codons(self, records) ==
    IF self.use_replacement_table THEN
        LET t == compute_replacement_table(self, records)
        IN  IF t.raised THEN [raised |-> TRUE, codons |-> t.codons]
            ELSE [raised |-> FALSE,
                  codons |-> [i \in DOMAIN records |->
                                 CopyFrom(t.codons[i], t.table, 1)]]
    ELSE sort_replacement_codons(self, records,
                                 [i \in DOMAIN records |-> i])

\* -------------------------------------------------------------------------
\* libcharm.py: LibCHarm.Sequence.compute_replacement_table and
\* LibCHarm.Sequence.harmonize_codons
\* -------------------------------------------------------------------------

\* The value of add for an item other than the original codon (lines
\* 225-231 and 304-310 of libcharm.py).
LibCHarm_Add(f_target_new, df_new, df, target_f, lower_threshold, origin_f) ==
    IF f_target_new < lower_threshold /\ origin_f > lower_threshold
    THEN FALSE
    ELSE IF df_new < df THEN TRUE
    ELSE target_f = 0

\* codon_substitutions of either loop: the items other than the original
\* codon with add set, in the order of the table.
LibCHarm_Substitutions(items, orig_codon, origin_f, target_f, df, lt) ==
    SelectSeq(Candidates(items, origin_f),
              LAMBDA t : /\ t[1] # orig_codon
                         /\ LibCHarm_Add(t[3], t[2], df, target_f, lt,
                                         origin_f))

\* The body of the loop of compute_replacement_table for one codon record:
\* under strong_stop every item of a stop codon goes to stop_codons and none
\* to codon_substitutions.
LibCHarm_TableBody(codon, usage_origin_table, usage_target_table, lt, ss) ==
    LET aa         == codon.aa
        orig_codon == codon.original
        origin_f   == UsageF(usage_origin_table, aa, orig_codon)
        target_f   == UsageF(usage_target_table, aa, orig_codon)
        df         == Abs(origin_f - target_f)
        items      == HostItems(usage_target_table, aa)
        first      == [codon EXCEPT !.origin_f = origin_f,
                                    !.target_f = target_f,
                                    !.initial_df = df]
        subst      == IF aa = "*" /\ ss THEN <<>>
                      ELSE LibCHarm_Substitutions(items, orig_codon, origin_f,
                                                  target_f, df, lt)
        stops      == IF aa = "*" /\ ss THEN Candidates(items, origin_f)
                      ELSE <<>>
    IN  IF subst # <<>> THEN
            LET s == sorted(subst, "df")
            IN  [first EXCEPT !.final_df = s[1][2], !.new = s[1][1]]
        ELSE IF aa = "*" /\ ss THEN
            LET s == sorted(stops, "f")
            IN  [first EXCEPT !.final_df = s[Len(s)][2],
                              !.new = s[Len(s)][1]]
        ELSE [first EXCEPT !.final_df = df, !.new = orig_codon]

\* The body of the per-position loop of harmonize_codons (lines 282-324)
\* for one codon record: it has no branch for stop codons.
LibCHarm_InlineBody(codon, usage_origin_table, usage_target_table, lt) ==
    LET aa         == codon.aa
        orig_codon == codon.original
        origin_f   == UsageF(usage_origin_table, aa, orig_codon)
        target_f   == UsageF(usage_target_table, aa, orig_codon)
        df         == Abs(origin_f - target_f)
        items      == HostItems(usage_target_table, aa)
        first      == [codon EXCEPT !.origin_f = origin_f,
                                    !.target_f = target_f,
                                    !.initial_df = df]
        subst      == LibCHarm_Substitutions(items, orig_codon, origin_f,
                                             target_f, df, lt)
    IN  IF subst # <<>> THEN
            LET s == sorted(subst, "df")
            IN  [first EXCEPT !.final_df = s[1][2], !.new = s[1][1]]
        ELSE [first EXCEPT !.final_df = df, !.new = orig_codon]

\* The records as a loop over all of them leaves them: resolved in order and
\* in place by the body for the mode, up to the first record whose lookup
\* raises KeyError.
LibCHarm_Loop(records, usage_origin_table, usage_target_table, lt, ss, table) ==
    LET self == [usage_origin |-> usage_origin_table,
                 usage_host   |-> usage_target_table]
        bad  == {i \in DOMAIN records : RaisesKeyError(self, records[i])}
    IN  [raised |-> bad # {},
         codons |-> [i \in DOMAIN records |->
                        IF \E j \in bad : j <= i THEN records[i]
                        ELSE IF table
                        THEN LibCHarm_TableBody(records[i], usage_origin_table,
                                                usage_target_table, lt, ss)
                        ELSE LibCHarm_InlineBody(records[i],
                                                 usage_origin_table,
                                                 usage_target_table, lt)]]

\* compute_replacement_table(usage_origin, usage_target, lower_threshold,
\* strong_stop): "codon not in unique_codons" compares whole records, which
\* differ in 'position', so unique_codons holds every record of self.codons.
LibCHarm_compute_replacement_table(records, usage_origin_table, usage_target_table, lt, ss) ==
    LibCHarm_Loop(records, usage_origin_table, usage_target_table, lt, ss,
                  TRUE)

\* lower_threshold of harmonize_codons, from its default arguments
\* lower_threshold_fraction=0.1 and lower_threshold_frequency=5; tables of
\* different units end the program.
LibCHarm_lower_threshold(origin_use_frequency, target_use_frequency) ==
    IF origin_use_frequency /\ target_use_frequency THEN 50
    ELSE IF ~origin_use_frequency /\ ~target_use_frequency THEN 10
    ELSE NoneNum

\* harmonize_codons(usage_origin, usage_target, use_replacement_table=...,
\* strong_stop=...): self.codons as the call leaves it, and how it ended.
LibCHarm_harmonize_codons(records, origin, target, use_replacement_table, ss) ==
    LET lt == LibCHarm_lower_threshold(origin.use_frequency,
                                       target.use_frequency)
    IN  IF lt = NoneNum THEN [error |-> "exit", codons |-> records]
        ELSE IF use_replacement_table THEN
            LET t == LibCHarm_compute_replacement_table(
                         records, origin.usage_table, target.usage_table,
                         lt, ss)
            IN  IF t.raised THEN [error |-> "KeyError", codons |-> t.codons]
                ELSE [error |-> "",
                      codons |-> [i \in DOMAIN records |->
                                     CopyFrom(t.codons[i], t.codons, 1)]]
        ELSE LET r == LibCHarm_Loop(records, origin.usage_table,
                                    target.usage_table, lt, FALSE, FALSE)
             IN  [error |-> IF r.raised THEN "KeyError" ELSE "",
                  codons |-> r.codons]

\* -------------------------------------------------------------------------
\* Sequence.construct_new_sequence
\* -------------------------------------------------------------------------

RECURSIVE Join(_)
\* ''.join(tmp)
Join(tmp) == IF tmp = <<>> THEN <<>> ELSE Head(tmp) \o Join(Tail(tmp))

\* construct_new_sequence with a fault: only the codons that changed.
construct_changed_only(records) ==
    LET h == SelectSeq(records, LAMBDA c : c.original # c.new)
    IN  Join([k \in DOMAIN h |-> h[k].new])

construct_new_sequence(records) ==
    Join([k \in DOMAIN records |-> records[k].new])

\* -------------------------------------------------------------------------
\* Sequence.translate_sequence
\* -------------------------------------------------------------------------

\* The whole codons of a sequence (Bio.Seq translates range(0, n - n%3, 3)).
WholeCodons(sequence) ==
    [k \in 1..(Len(sequence) \div 3) |-> SubSeq(sequence, 3 * k - 2, 3 * k)]

RECURSIVE ToStop(_, _)
\* The translation of codons up to the first stop codon (to_stop=True).
ToStop(cs, id) ==
    IF cs = <<>> \/ Head(cs) \in StopCodons(id) THEN <<>>
    ELSE <<TranslateCodon(Head(cs), id)>> \o ToStop(Tail(cs), id)

\* Bio.Seq.translate reads an invalid codon: with to_stop the codons after
\* the first stop codon are not read.
ReadsInvalidCodon(cs, id, to_stop) ==
    \E k \in 1..Len(cs) :
        /\ InvalidCodon(cs[k], id)
        /\ to_stop => \A j \in 1..(k - 1) : cs[j] \notin StopCodons(id)

\* Bio.Seq.translate(table, cds, to_stop): with cds the sequence must be a
\* complete coding sequence (a start codon, whole codons, one stop codon, at
\* the end) or TranslationError is raised, and the start codon translates to
\* M; an invalid codon that is read raises TranslationError in either mode.
BioTranslate(sequence, id, cds, to_stop) ==
    LET cs == WholeCodons(sequence)
        n  == Len(cs)
    IN  IF cds THEN
            IF \/ n = 0
               \/ cs[1] \notin StartCodons(id)
               \/ Len(sequence) % 3 # 0
               \/ cs[n] \notin StopCodons(id)
               \/ \E k \in 2..(n - 1) : cs[k] \in StopCodons(id)
               \/ ReadsInvalidCodon(cs, id, FALSE)
            THEN [raised |-> TRUE, aa |-> <<>>]
            ELSE [raised |-> FALSE,
                  aa |-> <<"M">> \o
                         [k \in 1..(n - 2) |-> TranslateCodon(cs[k + 1], id)]]
        ELSE IF ReadsInvalidCodon(cs, id, to_stop)
        THEN [raised |-> TRUE, aa |-> <<>>]
        ELSE [raised |-> FALSE,
              aa |-> IF to_stop THEN ToStop(cs, id)
                     ELSE [k \in 1..n |-> TranslateCodon(cs[k], id)]]

RECURSIVE translate_sequence(_, _, _, _, _)
\* translate_sequence(sequence, table, cds, to_stop) as the activation at
\* the given depth of nested calls: the handler of TranslationError calls
\* translate_sequence again with cds=False, to_stop=True, and the try
\* statement of that activation handles a TranslationError in the same way.
\* The nesting ends with a result or with the interpreter's RecursionError.
\* attempts counts the calls of sequence.translate.
translate_sequence(sequence, id, cds, to_stop, depth) ==
    LET r == BioTranslate(sequence, id, cds, to_stop)
    IN  IF ~r.raised
        THEN [error |-> "", aa |-> r.aa, attempts |-> 1]
        ELSE IF depth >= RecursionLimit
        THEN [error |-> "RecursionError", aa |-> <<>>, attempts |-> 1]
        ELSE LET s == translate_sequence(sequence, id, FALSE, TRUE, depth + 1)
             IN  [s EXCEPT !.attempts = @ + 1]

\* -------------------------------------------------------------------------
\* Sequence.__init__
\* -------------------------------------------------------------------------

\* self.lower_threshold as lines 27-35 set it: "not lower_threshold" holds
\* of None and of 0.
LowerThreshold(lower_threshold, use_frequency) ==
    IF lower_threshold = NoneNum \/ lower_threshold = 0
    THEN IF use_frequency THEN DefaultThresholdFrequency
         ELSE DefaultThresholdFraction
    ELSE lower_threshold

VARIABLES
    args,                           \* the arguments of __init__
    pc,                             \* the position in __init__
    lower_threshold,                \* self.lower_threshold
    original_translated_sequence,   \* self.original_translated_sequence
    codons,                         \* self.codons
    usage_origin,                   \* self.usage_origin.usage_table
    usage_host,                     \* self.usage_host.usage_table
    harmonized_sequence,            \* self.harmonized_sequence
    harmonized_translated_sequence, \* self.harmonized_translated_sequence
    translation_attempts            \* the calls of sequence.translate that
                                    \* the last translate_sequence made

vars == <<args, pc, lower_threshold, original_translated_sequence, codons,
          usage_origin, usage_host, harmonized_sequence,
          harmonized_translated_sequence, translation_attempts>>

\* The fields of self the methods read.  The arguments that __init__ stores
\* unchanged (lines 37-54) are read from args.
Self ==
    [usage_origin          |-> usage_origin,
     usage_host            |-> usage_host,
     lower_threshold       |-> lower_threshold,
     strong_stop           |-> args.strong_stop,
     lower_alternative     |-> args.lower_alternative,
     use_replacement_table |-> args.use_replacement_table]

\* -------------------------------------------------------------------------
\* The inputs of the model
\* -------------------------------------------------------------------------

\* A line of a Kazusa page.  The frequency per thousand that goes with a
\* fraction is three times the fraction (0.30 with 9.0 per thousand).
Line(codon, fraction) ==
    [codon |-> codon, fraction |-> fraction, frequency |-> 3 * fraction]

\* The origin and host organisms of the scenarios: leucine CTT 0.9 / CTC
\* 0.05 against CTT 0.05 / CTC 0.9, the stop codons TAA 0.6 against TAA 0.1 /
\* TGA 0.9, and CTT 0.5 against a host with CTC 0.02.
OriginA == <<Line(CTT, 90), Line(CTC, 5), Line(CTG, 5),
             Line(TAA, 60), Line(TGA, 40)>>
HostA == <<Line(CTT, 5), Line(CTC, 90), Line(CTG, 5),
           Line(TAA, 10), Line(TGA, 90)>>
OriginC == <<Line(CTT, 50), Line(CTC, 25), Line(CTG, 25),
             Line(TAA, 50), Line(TGA, 50)>>
HostC == <<Line(CTT, 99), Line(CTC, 2), Line(CTG, 0),
           Line(TGA, 50), Line(TAA, 50)>>

\* A host that uses the three leucine codons evenly: under a threshold of
\* 0.45 each of them is below the threshold.
HostE == <<Line(CTG, 30), Line(CTC, 35), Line(CTT, 35),
           Line(TAA, 50), Line(TGA, 50)>>

ScenarioPairs ==
    {<<OriginA, HostA>>, <<OriginC, HostC>>, <<OriginC, HostE>>}

\* Pages over a range of usage values, for one amino acid at a time.  The
\* values are fractions that a float holds exactly or whose differences do
\* not tie (0.25, 0.5, 0.75 against 0.0, 0.05), so that equal differences
\* of the model are equal differences of the floats.
HostValues == {0, 5, 25, 75}
OriginValues == {5, 25, 50}

\* A page in its listed order or in the reverse order.
Reverse(page) == [k \in DOMAIN page |-> page[Len(page) + 1 - k]]
Orders(page) == {page, Reverse(page)}

LeucineHosts ==
    UNION {Orders(<<Line(CTT, a), Line(CTC, b), Line(CTG, c),
                    Line(TAA, 50), Line(TGA, 50)>>) :
           a \in HostValues, b \in HostValues, c \in HostValues}

StopHosts ==
    UNION {Orders(<<Line(CTT, 25), Line(CTC, 25), Line(CTG, 25),
                    Line(TAA, a), Line(TGA, b)>>) :
           a \in HostValues, b \in HostValues}

Origins ==
    {<<Line(CTT, a), Line(CTC, 25), Line(CTG, 25),
       Line(TAA, a), Line(TGA, a)>> : a \in OriginValues}

\* The inputs of the pipeline: every sequence of at most MaxCodons codons,
\* followed by nothing or by a partial codon.
Tails == {<<>>, <<"C">>, <<"C", "T">>}

CodonLists == UNION {[1..k -> Codons] : k \in 0..MaxCodons}

InputSequences == {Join(cs) \o t : cs \in CodonLists, t \in Tails}

NoTable == <<>>

InitWith(sequences, tables, pairs, thresholds, frequency, booleans) ==
    /\ args \in
         [sequence                 : sequences,
          translation_table_origin : tables,
          translation_table_host   : tables,
          origin_id                : {p[1] : p \in pairs},
          host_id                  : {p[2] : p \in pairs},
          use_frequency            : frequency,
          lower_threshold          : thresholds,
          strong_stop              : BOOLEAN,
          lower_alternative        : BOOLEAN,
          use_replacement_table    : booleans]
    /\ <<args.origin_id, args.host_id>> \in pairs
    /\ lower_threshold = LowerThreshold(args.lower_threshold,
                                        args.use_frequency)
    /\ pc = "translate_original"
    /\ original_translated_sequence = <<>>
    /\ codons = <<>>
    /\ usage_origin = NoTable
    /\ usage_host = NoTable
    /\ harmonized_sequence = <<>>
    /\ harmonized_translated_sequence = <<>>
    /\ translation_attempts = 0

\* The pipeline on sequences of several codons, under the translation
\* tables 1 and 4 on either side, with the organisms of the scenarios.
Init ==
    InitWith(InputSequences, TableIds, ScenarioPairs, {NoneNum, 45},
             {FALSE}, BOOLEAN)

\* The selection of one codon over the ranges of usage values, thresholds
\* and units.
InitSelect ==
    \/ InitWith({CTT}, {1}, Origins \X LeucineHosts, {NoneNum, 0, 45},
                BOOLEAN, BOOLEAN)
    \/ InitWith({TAA, TGA}, {1}, Origins \X StopHosts, {NoneNum, 0, 45},
                BOOLEAN, BOOLEAN)
    \/ InitWith({CTT, TAA}, {1}, ScenarioPairs, {NoneNum, 0, 45},
                BOOLEAN, BOOLEAN)

\* The pipeline on sequences that may hold an invalid codon.
InvalidCodonLists == UNION {[1..k -> Codons \cup {CTX}] : k \in 0..MaxCodons}

InitTranslate ==
    InitWith({Join(cs) : cs \in InvalidCodonLists}, {1},
             {<<OriginA, HostA>>}, {NoneNum}, {FALSE}, BOOLEAN)

\* -------------------------------------------------------------------------
\* The steps of __init__
\* -------------------------------------------------------------------------

\* self.translate_sequence(self.original_sequence, ...), cds=True
TranslateOriginal ==
    /\ pc = "translate_original"
    /\ LET r == translate_sequence(args.sequence,
                                   args.translation_table_origin,
                                   TRUE, FALSE, 1)
       IN  /\ original_translated_sequence' = r.aa
           /\ translation_attempts' = r.attempts
           /\ pc' = IF r.error = "" THEN "split" ELSE r.error
    /\ UNCHANGED <<args, lower_threshold, codons, usage_origin, usage_host,
                   harmonized_sequence, harmonized_translated_sequence>>

\* self.split_original_sequence_to_codons(); codon.translate raises
\* TranslationError on an invalid codon, which nothing handles.
SplitOriginalSequenceToCodons ==
    /\ pc = "split"
    /\ IF \E k \in DOMAIN chunks(args.sequence, 3) :
              InvalidCodon(chunks(args.sequence, 3)[k],
                           args.translation_table_origin)
       THEN /\ pc' = "TranslationError"
            /\ UNCHANGED codons
       ELSE /\ codons' = split_original_sequence_to_codons(
                             args.sequence, args.translation_table_origin)
            /\ pc' = "fetch"
    /\ UNCHANGED <<args, lower_threshold, original_translated_sequence,
                   usage_origin, usage_host, harmonized_sequence,
                   harmonized_translated_sequence, translation_attempts>>

FetchUsageTables ==
    /\ pc = "fetch"
    /\ usage_origin' = CodonUsageTable(args.origin_id,
                                       args.translation_table_origin,
                                       args.use_frequency)
    /\ usage_host' = CodonUsageTable(args.host_id,
                                     args.translation_table_host,
                                     args.use_frequency)
    /\ pc' = "harmonize"
    /\ UNCHANGED <<translation_attempts, args, lower_threshold,
                   original_translated_sequence,
                   codons, harmonized_sequence,
                   harmonized_translated_sequence>>

\* self.harmonize_codons(); a KeyError leaves __init__.
HarmonizeCodons ==
    /\ pc = "harmonize"
    /\ LET r == harmonize_codons(Self, codons)
       IN  /\ codons' = r.codons
           /\ pc' = IF r.raised THEN "KeyError" ELSE "construct"
    /\ UNCHANGED <<translation_attempts, args, lower_threshold,
                   original_translated_sequence,
                   usage_origin, usage_host, harmonized_sequence,
                   harmonized_translated_sequence>>

ConstructNewSequence ==
    /\ pc = "construct"
    /\ harmonized_sequence' = construct_new_sequence(codons)
    /\ pc' = "translate_harmonized"
    /\ UNCHANGED <<translation_attempts, args, lower_threshold,
                   original_translated_sequence,
                   codons, usage_origin, usage_host,
                   harmonized_translated_sequence>>

TranslateHarmonized ==
    /\ pc = "translate_harmonized"
    /\ LET r == translate_sequence(harmonized_sequence,
                                   args.translation_table_host,
                                   TRUE, FALSE, 1)
       IN  /\ harmonized_translated_sequence' = r.aa
           /\ translation_attempts' = r.attempts
           /\ pc' = IF r.error = "" THEN "done" ELSE r.error
    /\ UNCHANGED <<args, lower_threshold, original_translated_sequence,
                   codons, usage_origin, usage_host, harmonized_sequence>>

Next ==
    \/ TranslateOriginal
    \/ SplitOriginalSequenceToCodons
    \/ FetchUsageTables
    \/ HarmonizeCodons
    \/ ConstructNewSequence
    \/ TranslateHarmonized

Spec == Init /\ [][Next]_vars

SpecSelect == InitSelect /\ [][Next]_vars

SpecTranslate == InitTranslate /\ [][Next]_vars

\* -------------------------------------------------------------------------
\* libcharm.py: the steps of LibCHarm.Sequence.__init__
\* -------------------------------------------------------------------------

\* LibCHarm.Sequence translates, splits and fetches as Sequence does (lines
\* 119-128 of libcharm.py), always under the Standard table.  Its
\* harmonize_codons takes the usage tables, use_replacement_table and
\* strong_stop as arguments.
InitLibCHarm ==
    InitWith(InputSequences, {1}, ScenarioPairs, {NoneNum}, BOOLEAN, BOOLEAN)

LibCHarm_HarmonizeCodons ==
    /\ pc = "harmonize"
    /\ LET r == LibCHarm_harmonize_codons(
                    codons,
                    [use_frequency |-> args.use_frequency,
                     usage_table   |-> usage_origin],
                    [use_frequency |-> args.use_frequency,
                     usage_table   |-> usage_host],
                    args.use_replacement_table, args.strong_stop)
       IN  /\ codons' = r.codons
           /\ pc' = IF r.error = "" THEN "construct" ELSE r.error
    /\ UNCHANGED <<translation_attempts, args, lower_threshold,
                   original_translated_sequence, usage_origin, usage_host,
                   harmonized_sequence, harmonized_translated_sequence>>

\* construct_new_sequence of libcharm.py joins the codons and translates
\* the harmonized sequence.
LibCHarm_ConstructNewSequence ==
    /\ pc = "construct"
    /\ LET r == translate_sequence(construct_new_sequence(codons),
                                   args.translation_table_host,
                                   TRUE, FALSE, 1)
       IN  /\ harmonized_sequence' = construct_new_sequence(codons)
           /\ harmonized_translated_sequence' = r.aa
           /\ translation_attempts' = r.attempts
           /\ pc' = IF r.error = "" THEN "done" ELSE r.error
    /\ UNCHANGED <<args, lower_threshold, original_translated_sequence,
                   codons, usage_origin, usage_host>>

NextLibCHarm ==
    \/ TranslateOriginal
    \/ SplitOriginalSequenceToCodons
    \/ FetchUsageTables
    \/ LibCHarm_HarmonizeCodons
    \/ LibCHarm_ConstructNewSequence

SpecLibCHarm == InitLibCHarm /\ [][NextLibCHarm]_vars

\* -------------------------------------------------------------------------
\* Properties
\* -------------------------------------------------------------------------

\* harmonize_codons has returned.
Harmonized == pc \in {"construct", "translate_harmonized", "done"}

\* The record was resolved by the strong-stop rule.
ByStrongStop(c) == c.aa = "*" /\ args.strong_stop

\* The host usage of codon x under the amino acid of record c.
HostF(c, x) == UsageF(usage_host, c.aa, x)

\* The host codons of the amino acid of record c.
HostCodons(c) ==
    {usage_host[k].codon :
        k \in {j \in DOMAIN usage_host : usage_host[j].aa = c.aa}}

\* Host codon x is below the lower threshold while the origin usage of the
\* original of c is above it.
BelowThreshold(c, x) ==
    HostF(c, x) < lower_threshold /\ c.origin_f > lower_threshold

\* The usage difference of host codon x for record c.
DfNew(c, x) == Abs(c.origin_f - HostF(c, x))

\* The accepted candidates of record c: the host codons of its amino acid
\* that the threshold does not reject.
Accepted(c) == {x \in HostCodons(c) : ~BelowThreshold(c, x)}

\* C1: after harmonize_codons every record's 'new' is a codon that the host
\* translation table translates to the record's 'aa', the amino acid of
\* 'original' under the origin table.
C1_NewCodesForSameAminoAcid ==
    Harmonized =>
        \A i \in DOMAIN codons :
            /\ codons[i].aa = TranslateCodon(codons[i].original,
                                             args.translation_table_origin)
            /\ TranslateCodon(codons[i].new, args.translation_table_host)
                   = codons[i].aa

\* C1 witness: harmonized under two different translation tables, one
\* record given another stop codon by the strong-stop rule and one record
\* whose original is retained because no candidate is accepted.
C1_Witness ==
    /\ Harmonized
    /\ args.translation_table_origin # args.translation_table_host
    /\ \E i \in DOMAIN codons :
           ByStrongStop(codons[i]) /\ codons[i].new # codons[i].original
    /\ \E i \in DOMAIN codons :
           /\ ~ByStrongStop(codons[i])
           /\ Accepted(codons[i]) = {}
           /\ codons[i].new = codons[i].original

\* C2 as stated: final_df <= initial_df whenever new differs from original,
\* and final_df = initial_df whenever new is the original.
C2_FinalDfNeverLarger ==
    Harmonized =>
        \A i \in DOMAIN codons :
            /\ codons[i].new # codons[i].original
                   => codons[i].final_df <= codons[i].initial_df
            /\ codons[i].new = codons[i].original
                   => codons[i].final_df = codons[i].initial_df

\* C3: with use_replacement_table every record ends as sort_replacement_codons
\* over every position leaves it, 'position' being its own ordinal, and the
\* call raises exactly when the per-position call raises.
C3_TableEqualsPerPosition ==
    LET split  == split_original_sequence_to_codons(
                      args.sequence, args.translation_table_origin)
        direct == sort_replacement_codons(Self, split,
                                          [i \in DOMAIN split |-> i])
    IN  (args.use_replacement_table /\ (Harmonized \/ pc = "KeyError")) =>
            /\ (pc = "KeyError") = direct.raised
            /\ Harmonized =>
                   /\ codons = direct.codons
                   /\ \A i \in DOMAIN codons : codons[i].position = i

\* C3 witness: the table was used for a sequence in which a codon that is
\* substituted occurs twice.
C3_Witness ==
    /\ Harmonized
    /\ args.use_replacement_table
    /\ \E i, j \in DOMAIN codons :
           /\ i < j
           /\ codons[i].original = codons[j].original
           /\ codons[j].new # codons[j].original

\* C4: the harmonized sequence holds the 'new' of record i at the places
\* 3i-2..3i, nothing else, and is as long as the input sequence.
C4_ConcatenationInOrder ==
    pc \in {"translate_harmonized", "done"} =>
        /\ Len(harmonized_sequence) = 3 * Len(codons)
        /\ Len(harmonized_sequence) = Len(args.sequence)
        /\ \A i \in DOMAIN codons :
               SubSeq(harmonized_sequence, 3 * i - 2, 3 * i) = codons[i].new

\* C4 witness: a sequence of two codons was constructed, one substituted
\* and one not.
C4_Witness ==
    /\ pc = "translate_harmonized"
    /\ Len(codons) = 2
    /\ codons[1].new # codons[1].original
    /\ codons[2].new = codons[2].original

\* C5: under the strong-stop rule 'new' is a host stop codon of maximal host
\* usage, whatever the usage differences and the threshold; target_f is
\* that usage and final_df = |origin_f - target_f|.
C5_StrongStopTakesMaximum ==
    Harmonized =>
        \A i \in DOMAIN codons :
            ByStrongStop(codons[i]) =>
                /\ codons[i].new \in HostCodons(codons[i])
                /\ codons[i].target_f = HostF(codons[i], codons[i].new)
                /\ \A x \in HostCodons(codons[i]) :
                       HostF(codons[i], x) <= codons[i].target_f
                /\ codons[i].final_df
                       = Abs(codons[i].origin_f - codons[i].target_f)

\* C5 witness: Scenario B, the stop codon TAA with origin usage 0.6 and the
\* host usages TAA 0.1 and TGA 0.9 becomes TGA.
C5_Witness ==
    /\ Harmonized
    /\ args.strong_stop
    /\ Len(codons) = 1
    /\ codons[1].original = TAA
    /\ codons[1].origin_f = 60
    /\ HostF(codons[1], TAA) = 10
    /\ HostF(codons[1], TGA) = 90
    /\ codons[1].new = TGA

\* C6: outside the strong-stop rule 'new' is never a codon other than the
\* original whose host usage is below the threshold while the origin usage
\* of the original is above it; when every other host codon is rejected so,
\* the original is retained.
C6_ThresholdRejection ==
    Harmonized =>
        \A i \in DOMAIN codons :
            ~ByStrongStop(codons[i]) =>
                /\ codons[i].new # codons[i].original
                       => ~BelowThreshold(codons[i], codons[i].new)
                /\ (\A x \in HostCodons(codons[i]) \ {codons[i].original} :
                        BelowThreshold(codons[i], x))
                       => codons[i].new = codons[i].original

\* C6 witness: Scenario C, origin usage 0.5 and threshold 0.1; the host codon
\* of usage 0.02 has the smallest usage difference of all and is rejected,
\* as is every other, and the original is retained.
C6_Witness ==
    /\ Harmonized
    /\ Len(codons) = 1
    /\ lower_threshold = 10
    /\ codons[1].origin_f = 50
    /\ \E x \in HostCodons(codons[1]) \ {codons[1].original} :
           /\ HostF(codons[1], x) = 2
           /\ \A y \in HostCodons(codons[1]) \ {x} :
                  DfNew(codons[1], x) < DfNew(codons[1], y)
    /\ \A x \in HostCodons(codons[1]) \ {codons[1].original} :
           BelowThreshold(codons[1], x)
    /\ codons[1].new = codons[1].original

\* C7: outside the strong-stop rule, when a candidate is accepted, final_df
\* is the least usage difference of the accepted candidates and 'new' is a
\* candidate of that difference.
C7_MinimumDifference ==
    Harmonized =>
        \A i \in DOMAIN codons :
            (~ByStrongStop(codons[i]) /\ Accepted(codons[i]) # {}) =>
                /\ codons[i].new \in Accepted(codons[i])
                /\ codons[i].final_df = DfNew(codons[i], codons[i].new)
                /\ \A x \in Accepted(codons[i]) :
                       codons[i].final_df <= DfNew(codons[i], x)

\* C7 witness: Scenario A, CTT with origin usage 0.9 and the host usages CTT
\* 0.05 and CTC 0.9 under the threshold 0.1 becomes CTC with final_df 0.
C7_Witness ==
    /\ Harmonized
    /\ Len(codons) = 1
    /\ lower_threshold = 10
    /\ codons[1].original = CTT
    /\ codons[1].origin_f = 90
    /\ HostF(codons[1], CTT) = 5
    /\ HostF(codons[1], CTC) = 90
    /\ codons[1].new = CTC
    /\ codons[1].final_df = 0

\* C8 as stated: outside the strong-stop rule 'new' differs from 'original'
\* only if its usage difference is below the original's or its host usage is
\* 0, and a retained original has final_df = initial_df.
C8_AdmittedOnlyIfBetterOrZero ==
    Harmonized =>
        \A i \in DOMAIN codons :
            ~ByStrongStop(codons[i]) =>
                /\ codons[i].new # codons[i].original =>
                       /\ ~BelowThreshold(codons[i], codons[i].new)
                       /\ \/ DfNew(codons[i], codons[i].new)
                                 < codons[i].initial_df
                          \/ HostF(codons[i], codons[i].new) = 0
                /\ codons[i].new = codons[i].original =>
                       codons[i].final_df = codons[i].initial_df

\* The accepted candidates of the least usage difference.
Tied(c) ==
    {x \in Accepted(c) : \A y \in Accepted(c) : DfNew(c, x) <= DfNew(c, y)}

\* C9 as stated: of two or more accepted candidates of the least usage
\* difference, the one of the lowest host usage is taken when
\* lower_alternative is set and the one of the highest host usage when not.
C9_TieBreak ==
    Harmonized =>
        \A i \in DOMAIN codons :
            (~ByStrongStop(codons[i]) /\ Cardinality(Tied(codons[i])) >= 2)
                => \A x \in Tied(codons[i]) :
                       IF args.lower_alternative
                       THEN codons[i].target_f <= HostF(codons[i], x)
                       ELSE codons[i].target_f >= HostF(codons[i], x)

\* C10 as stated: split_original_sequence_to_codons returns only for an
\* input whose length is a multiple of 3, and no record it returns has an
\* 'original' of fewer than 3 nucleotides.
C10_SplitRejectsPartialCodon ==
    pc \notin {"translate_original", "split"} =>
        /\ Len(args.sequence) % 3 = 0
        /\ \A i \in DOMAIN codons : Len(codons[i].original) = 3

\* C11: every call of translate_sequence ends after at most two calls of
\* sequence.translate: the one fallback after the first TranslationError is
\* the last attempt.
C11_AtMostTwoAttempts == translation_attempts <= 2

\* C12: when the lookup of some codon of the sequence raises KeyError (its
\* amino acid or the codon under it is missing from the origin or the host
\* usage table), harmonize_codons ends with that KeyError in either mode:
\* construct_new_sequence is not run and no harmonized sequence is produced,
\* whatever records were resolved before.
C12_KeyErrorFailsHarmonization ==
    (/\ pc \in {"KeyError", "construct", "translate_harmonized", "done"}
     /\ \E i \in DOMAIN codons : RaisesKeyError(Self, codons[i]))
    => /\ pc = "KeyError"
       /\ harmonized_sequence = <<>>
       /\ harmonized_translated_sequence = <<>>

\* A sequence whose first codon was resolved and whose second codon is
\* missing from the host usage table, with the replacement table.
C12_Witness ==
    /\ pc = "KeyError"
    /\ args.use_replacement_table
    /\ Len(codons) = 2
    /\ codons[1].new # NoneCodon
    /\ codons[1].new # codons[1].original
    /\ HasKey(usage_origin, codons[2].aa, codons[2].original)
    /\ ~HasKey(usage_host, codons[2].aa, codons[2].original)
    /\ harmonized_sequence = <<>>

\* The order of the nucleotide letters, and the lexical order of codons.
LetterRank(n) ==
    CASE n = "A" -> 1 [] n = "C" -> 2 [] n = "G" -> 3 [] n = "T" -> 4
      [] OTHER -> 5

LexicallyLess(a, b) ==
    \E k \in 1..3 :
        /\ \A j \in 1..(k - 1) : a[j] = b[j]
        /\ LetterRank(a[k]) < LetterRank(b[k])

\* The host codons of the amino acid of record c that share the maximum
\* host usage.
MaxUsage(c) ==
    {x \in HostCodons(c) :
        \A y \in HostCodons(c) : HostF(c, y) <= HostF(c, x)}

\* C13: under the strong-stop rule, of two or more host stop
\* codons that share the maximum host usage the lexically smallest is
\* taken, whatever the order of the host usage table.
C13_TieTakesLexicallySmallest ==
    Harmonized =>
        \A i \in DOMAIN codons :
            (ByStrongStop(codons[i]) /\ Cardinality(MaxUsage(codons[i])) >= 2)
                => /\ codons[i].new \in MaxUsage(codons[i])
                   /\ \A x \in MaxUsage(codons[i]) \ {codons[i].new} :
                          LexicallyLess(codons[i].new, x)

\* What LibCHarm.Sequence.harmonize_codons makes of the records of the
\* sequence with use_replacement_table=False, under the same usage tables.
LibCHarm_PerPosition ==
    LibCHarm_harmonize_codons(
        split_original_sequence_to_codons(args.sequence,
                                          args.translation_table_origin),
        [use_frequency |-> args.use_frequency, usage_table |-> usage_origin],
        [use_frequency |-> args.use_frequency, usage_table |-> usage_host],
        FALSE, args.strong_stop).codons

\* C14: LibCHarm.Sequence.harmonize_codons with use_replacement_table=True
\* and strong_stop=True leaves in every codon record, stop codons included,
\* the 'new' and the 'final_df' that the same call with
\* use_replacement_table=False leaves.
C14_LibCHarmTableEqualsInline ==
    (pc \in {"construct", "done"}
        /\ args.use_replacement_table /\ args.strong_stop)
    => \A i \in DOMAIN codons :
           /\ codons[i].new = LibCHarm_PerPosition[i].new
           /\ codons[i].final_df = LibCHarm_PerPosition[i].final_df

\* C15: the lower threshold that sort_replacement_codons has applied is the
\* lower_threshold argument whenever one was supplied, 0 included, and the
\* default of the unit (0.1 for fractions, 5 per thousand) only when none
\* was supplied.
C15_SuppliedThresholdApplies ==
    Harmonized =>
        lower_threshold =
            IF args.lower_threshold # NoneNum THEN args.lower_threshold
            ELSE IF args.use_frequency THEN DefaultThresholdFrequency
            ELSE DefaultThresholdFraction

====
